---- MODULE Spec2Model ----
(***************************************************************************)
(* A model of liplum/pytui's two helper libraries:                         *)
(*   - colortxt (colors.py, txt.py): ANSI tinting, ColorStr, StrGroup      *)
(*   - filesystem.py: Pathable, File, Directory                            *)
(*                                                                         *)
(* A Python str is a sequence of one-character tokens.  `res` holds the    *)
(* record of the most recent call: its name, its arguments, the state it   *)
(* started from where that matters, and what it returned or raised.        *)
(***************************************************************************)
EXTENDS Integers, Sequences, FiniteSets, TLC

VARIABLES
    items,   \* StrGroup.items of the group under observation
    res,     \* the most recent call and its outcome
    posix,   \* the host: TRUE where os.path is posixpath, FALSE where it is ntpath
    dirs,    \* the directories that exist below the working directory
    files    \* the regular files that exist: component path |-> bytes on disk

vars == <<items, res, posix, dirs, files>>

(***************************************************************************)
(* Bounds of the model.                                                    *)
(***************************************************************************)
MaxItems == 3      \* longest fragment list of a StrGroup
MaxTimes == 3      \* largest repetition count tried with ColorStr * n
MaxPathLen == 2    \* most components of a path handed to a comparison
MaxNodes == 4      \* most files and directories the tree holds at once
MaxDisk == 2       \* most bytes all files hold together

(***************************************************************************)
(* colortxt/colors.py                                                      *)
(***************************************************************************)
ESC == "\\033"

\* Python's None, as a value comparable with the strings an attribute may be.
None == <<"None">>

FG_Red == <<";", "3", "1">>
FG_Green == <<";", "3", "2">>
BG_Blue == <<";", "4", "4">>
BG_White == <<";", "4", "7">>
Style_Default == <<"0">>
Style_Bold == <<"1">>

\* `if x:` on an attribute: None and the empty string are false.
Truthy(x) == x # None /\ x # <<>>

tintIO_FgFirst(s, text, fg, bg, style) ==
    LET s1 == s \o <<ESC, "[">>
        s2 == IF Truthy(fg) THEN s1 \o fg ELSE s1
        s3 == IF Truthy(style) THEN s2 \o style ELSE s2
        s4 == IF Truthy(bg) THEN s3 \o bg ELSE s3
    IN  s4 \o <<"m">> \o text \o <<ESC, "[", "0", "m">>

\* The writes of tintIO, in the order the code makes them, onto buffer s.
tintIO(s, text, fg, bg, style) ==
    LET s1 == s \o <<ESC, "[">>
        s2 == IF Truthy(style) THEN s1 \o style ELSE s1
        s3 == IF Truthy(fg) THEN s2 \o fg ELSE s2
        s4 == IF Truthy(bg) THEN s3 \o bg ELSE s3
        s5 == s4 \o <<"m">>
        s6 == s5 \o text
    IN  s6 \o <<ESC, "[", "0", "m">>

tint(text, fg, bg, style) == tintIO(<<>>, text, fg, bg, style)

(***************************************************************************)
(* colortxt/txt.py                                                         *)
(***************************************************************************)
ColorStr(txt, fg, bg, style) ==
    [kind |-> "ColorStr", txt |-> txt, fg |-> fg, bg |-> bg, style |-> style]

\* A plain Python str as a fragment.
PlainStr(txt) == [kind |-> "str", txt |-> txt]

isColorStr(item) == item.kind = "ColorStr"

ColorStr_len(c) == Len(c.txt)

ColorStr_get(c) == tint(c.txt, c.fg, c.bg, c.style)

\* str * n of Python: the empty string for n <= 0.
RECURSIVE StrTimes(_, _)
StrTimes(txt, times) ==
    IF times <= 0 THEN <<>> ELSE txt \o StrTimes(txt, times - 1)

ColorStr_mul_NoStyle(c, times) ==
    ColorStr(StrTimes(c.txt, times), None, None, None)

ColorStr_mul(c, times) ==
    ColorStr(StrTimes(c.txt, times), c.fg, c.bg, c.style)

\* ColorStr.__add__: the items of the StrGroup it returns.
ColorStr_add_Swapped(self, other) == <<other, self>>

ColorStr_add(self, other) == <<self, other>>

\* len(item) of a fragment: ColorStr.__len__ or the built-in len of a str.
ItemLen(item) == IF isColorStr(item) THEN ColorStr_len(item) ELSE Len(item.txt)

RECURSIVE StrGroup_len_From(_, _, _)
StrGroup_len_From(its, i, total) ==
    IF i > Len(its) THEN total
    ELSE StrGroup_len_From(its, i + 1, total + ItemLen(its[i]))

StrGroup_len_Rendered(its) ==
    LET RenderLen(item) ==
            IF isColorStr(item) THEN Len(ColorStr_get(item)) ELSE Len(item.txt)
        Sum[i \in 0..Len(its)] ==
            IF i = 0 THEN 0 ELSE Sum[i - 1] + RenderLen(its[i])
    IN  Sum[Len(its)]

StrGroup_len(its) == StrGroup_len_From(its, 1, 0)

RECURSIVE StrGroup_get_From(_, _, _)
StrGroup_get_From(its, i, s) ==
    IF i > Len(its) THEN s
    ELSE StrGroup_get_From(its, i + 1,
            IF isColorStr(its[i]) THEN s \o ColorStr_get(its[i])
            ELSE s \o its[i].txt)

StrGroup_get(its) == StrGroup_get_From(its, 1, <<>>)

RECURSIVE StrGroup_str_From(_, _, _)
StrGroup_str_From(its, i, s) ==
    IF i > Len(its) THEN s
    ELSE StrGroup_str_From(its, i + 1, s \o its[i].txt)

StrGroup_str(its) == StrGroup_str_From(its, 1, <<>>)

\* list.insert(index, x): a negative index counts from the end, and an index
\* outside the list is clamped to its nearest end.
ListInsert(its, index, x) ==
    LET n == Len(its)
        i0 == IF index < 0 THEN index + n ELSE index
        i == IF i0 < 0 THEN 0 ELSE IF i0 > n THEN n ELSE i0
    IN  SubSeq(its, 1, i) \o <<x>> \o SubSeq(its, i + 1, n)

StrGroup_append(its, txt) == Append(its, txt)

StrGroup_add_head_AtTail(its, txt) == Append(its, txt)

StrGroup_add_head(its, txt) == ListInsert(its, 0, txt)

StrGroup_insert(its, index, txt) == ListInsert(its, index, txt)

(***************************************************************************)
(* Calls of the colortxt API.  Arguments are drawn from small sample sets. *)
(***************************************************************************)
Texts == {<<>>, <<"A">>, <<"B", "C">>}

StyleChoices == {None, <<>>, Style_Default, Style_Bold}
FgChoices == {None, FG_Red, FG_Green}
BgChoices == {None, BG_Blue, BG_White}

\* The fragments the group is built from: two styled runs of different style,
\* a styled run of empty text, and two plain strings.
GroupFragments ==
    { ColorStr(<<"A">>, FG_Red, None, None),
      ColorStr(<<"B", "C">>, FG_Green, BG_White, Style_Bold),
      ColorStr(<<>>, None, BG_Blue, None),
      PlainStr(<<"D">>),
      PlainStr(<<>>) }

InitTxt ==
    /\ items = <<>>
    /\ res = [op |-> "init"]
    /\ posix = FALSE
    /\ dirs = {}
    /\ files = [p \in {} |-> <<>>]

fsvars == <<posix, dirs, files>>

\* colors.tint(text, fg, bg, style)
TintCall ==
    \E text \in Texts, fg \in FgChoices, bg \in BgChoices, style \in StyleChoices :
        /\ res' = [op |-> "tint", text |-> text, fg |-> fg, bg |-> bg,
                   style |-> style, out |-> tint(text, fg, bg, style)]
        /\ UNCHANGED <<items, fsvars>>

\* `left + right` with at least one ColorStr operand.  Python first asks the
\* left operand's __add__; a str on the left answers NotImplemented for a
\* ColorStr, and ColorStr defines no __radd__ to fall back on: TypeError.
AddCall ==
    \E left \in GroupFragments, right \in GroupFragments :
        /\ isColorStr(left) \/ isColorStr(right)
        /\ IF isColorStr(left)
           THEN /\ items' = ColorStr_add(left, right)
                /\ res' = [op |-> "add", left |-> left, right |-> right,
                           pre |-> items, raised |-> "no"]
           ELSE /\ items' = items
                /\ res' = [op |-> "add", left |-> left, right |-> right,
                           pre |-> items, raised |-> "TypeError"]
        /\ UNCHANGED fsvars

\* StrGroup(): items is None, so the group starts with a fresh empty list.
NewGroupCall ==
    /\ items' = <<>>
    /\ res' = [op |-> "new"]
    /\ UNCHANGED fsvars

AppendCall ==
    \E txt \in GroupFragments :
        /\ Len(items) < MaxItems
        /\ items' = StrGroup_append(items, txt)
        /\ res' = [op |-> "append", x |-> txt, pre |-> items]
        /\ UNCHANGED fsvars

AddHeadCall ==
    \E txt \in GroupFragments :
        /\ Len(items) < MaxItems
        /\ items' = StrGroup_add_head(items, txt)
        /\ res' = [op |-> "add_head", x |-> txt, pre |-> items]
        /\ UNCHANGED fsvars

InsertCall ==
    \E txt \in GroupFragments, index \in -(Len(items) + 1)..(Len(items) + 1) :
        /\ Len(items) < MaxItems
        /\ items' = StrGroup_insert(items, index, txt)
        /\ res' = [op |-> "insert", x |-> txt, index |-> index, pre |-> items]
        /\ UNCHANGED fsvars

GetCall ==
    /\ res' = [op |-> "get", out |-> StrGroup_get(items)]
    /\ UNCHANGED <<items, fsvars>>

StrCall ==
    /\ res' = [op |-> "str", out |-> StrGroup_str(items)]
    /\ UNCHANGED <<items, fsvars>>

LenCall ==
    /\ res' = [op |-> "len", out |-> StrGroup_len(items)]
    /\ UNCHANGED <<items, fsvars>>

MulCall ==
    \E c \in {f \in GroupFragments : isColorStr(f)}, times \in -2..MaxTimes :
        /\ res' = [op |-> "mul", c |-> c, times |-> times,
                   out |-> ColorStr_mul(c, times)]
        /\ UNCHANGED <<items, fsvars>>

\* The StrGroup under observation: built by +, mutated, rendered, measured.
NextTxt ==
    \/ AddCall
    \/ NewGroupCall
    \/ AppendCall
    \/ AddHeadCall
    \/ InsertCall
    \/ GetCall
    \/ StrCall
    \/ LenCall

SpecTxt == InitTxt /\ [][NextTxt]_vars

\* The pure functions tint and ColorStr.__mul__ applied to sampled arguments.
NextTint ==
    \/ TintCall
    \/ MulCall

SpecTint == InitTxt /\ [][NextTint]_vars

(***************************************************************************)
(* filesystem.py: paths.                                                   *)
(*                                                                         *)
(* A path is a Python str: a sequence of tokens, each a whole name (".",   *)
(* "..", "a", ...) or a separator character, "/" or "\".  How a path       *)
(* splits into components is the host's business: posixpath separates at   *)
(* "/" alone, ntpath at "/" and at "\".  A component is the sequence of     *)
(* tokens between two separators.                                          *)
(***************************************************************************)
SLASH == "/"
BACKSLASH == "\\"

\* The working directory, as the components of its absolute path.
Cwd == << <<"w">> >>

IsSep(px, tok) == tok = SLASH \/ (~px /\ tok = BACKSLASH)

\* os.path.isabs, drive letters aside.
IsAbs(px, path) == Len(path) > 0 /\ IsSep(px, path[1])

\* The components of a path on the host, empty ones (a leading, a trailing or
\* a doubled separator) dropped.
RECURSIVE ComponentsFrom(_, _, _, _, _)
ComponentsFrom(px, path, i, cur, acc) ==
    IF i > Len(path)
    THEN IF cur = <<>> THEN acc ELSE Append(acc, cur)
    ELSE IF IsSep(px, path[i])
         THEN ComponentsFrom(px, path, i + 1, <<>>,
                             IF cur = <<>> THEN acc ELSE Append(acc, cur))
         ELSE ComponentsFrom(px, path, i + 1, Append(cur, path[i]), acc)

Components(px, path) == ComponentsFrom(px, path, 1, <<>>, <<>>)

\* os.path.normpath of an absolute path, on its components: "." is dropped
\* and ".." removes the component before it (at the root, nothing).
RECURSIVE NormFrom(_, _, _)
NormFrom(comps, i, acc) ==
    IF i > Len(comps) THEN acc
    ELSE IF comps[i] = <<".">> THEN NormFrom(comps, i + 1, acc)
    ELSE IF comps[i] = <<"..">>
         THEN NormFrom(comps, i + 1,
                       IF acc = <<>> THEN acc ELSE SubSeq(acc, 1, Len(acc) - 1))
    ELSE NormFrom(comps, i + 1, Append(acc, comps[i]))

\* os.path.abspath: join the working directory and a relative path, normalise.
abspath(px, path) ==
    NormFrom((IF IsAbs(px, path) THEN <<>> ELSE Cwd) \o Components(px, path),
             1, <<>>)

\* Pathable.__init__ for a File, a Directory, or (kind "str") a bare string.
Pathable(px, kind, path) ==
    [kind |-> kind, path |-> path,
     abs_path |-> IF kind = "str" THEN <<>> ELSE abspath(px, path)]

File(px, path) == Pathable(px, "File", path)

Directory(px, path) == Pathable(px, "Directory", path)

Pathable_eq(px, self, other) ==
    IF other.kind = "str" THEN self.abs_path = abspath(px, other.path)
    ELSE IF other.kind = "File" THEN self.abs_path = other.abs_path
    ELSE FALSE

File_eq(px, self, other) ==
    IF other.kind = "str" THEN self.abs_path = abspath(px, other.path)
    ELSE IF other.kind = "File" THEN self.abs_path = other.abs_path
    ELSE FALSE

\* `self == other` with a Pathable on the left: File overrides __eq__,
\* Directory inherits Pathable's.
EqOperator(px, self, other) ==
    IF self.kind = "File" THEN File_eq(px, self, other)
    ELSE Pathable_eq(px, self, other)

\* a/b/c for the names a, b, c.
RECURSIVE JoinNames(_, _)
JoinNames(names, sep) ==
    IF Len(names) = 0 THEN <<>>
    ELSE IF Len(names) = 1 THEN <<names[1]>>
    ELSE <<names[1], sep>> \o JoinNames(SubSeq(names, 2, Len(names)), sep)

SeqsUpTo(S, n) == UNION {[1..k -> S] : k \in 1..n}

ComparedPaths == {JoinNames(ns, SLASH) : ns \in SeqsUpTo({".", "..", "a", "b"}, MaxPathLen)}

\* Two operands are constructed; the calls below act on them.
InitEq ==
    /\ items = <<>>
    /\ posix \in BOOLEAN
    /\ \E k1 \in {"File", "Directory"}, k2 \in {"File", "Directory", "str"},
          p1 \in ComparedPaths, p2 \in ComparedPaths :
            res = [op |-> "new", self |-> Pathable(posix, k1, p1),
                   other |-> Pathable(posix, k2, p2)]
    /\ dirs = {}
    /\ files = [p \in {} |-> <<>>]

\* self == other
EqCall ==
    /\ res.op = "new"
    /\ res' = [op |-> "eq", self |-> res.self, other |-> res.other,
               out |-> EqOperator(posix, res.self, res.other)]
    /\ UNCHANGED <<items, fsvars>>

\* self.to_abs(): the same kind of entity on the absolute path, which is
\* written with the host's separator.
ToAbsCall ==
    /\ res.op = "new"
    /\ LET self == res.self
           sep == IF posix THEN SLASH ELSE BACKSLASH
           flat == [i \in 1..Len(self.abs_path) |-> self.abs_path[i][1]]
       IN  res' = [op |-> "to_abs", self |-> self, other |-> res.other,
                   out |-> Pathable(posix, self.kind, <<sep>> \o JoinNames(flat, sep))]
    /\ UNCHANGED <<items, fsvars>>

NextEq ==
    \/ EqCall
    \/ ToAbsCall

SpecEq == InitEq /\ [][NextEq]_vars

(***************************************************************************)
(* filesystem.py: the file tree and the OS calls the wrappers delegate to. *)
(*                                                                         *)
(* A tree fs = [dirs, files] is keyed by component paths relative to the   *)
(* working directory; <<>> is the working directory itself, which always   *)
(* exists.  The sampled paths hold no "." or ".." component, so the        *)
(* components of a path are its key.  An OS call gives back err ("no", or  *)
(* the name of the exception it raises) and the tree it leaves.            *)
(***************************************************************************)
Key(px, path) == Components(px, path)

Parent(k) == SubSeq(k, 1, Len(k) - 1)

Nodes(fs) == fs.dirs \cup DOMAIN fs.files

\* os.path.exists / isfile / isdir; the empty path names nothing.
os_path_exists(fs, k) == k # <<>> /\ k \in Nodes(fs)

os_path_isfile(fs, k) == k \in DOMAIN fs.files

os_path_isdir(fs, k) == k \in fs.dirs

\* Path resolution: what stops the OS on the way to the last component.
FileAncestor(fs, k) == \E n \in 1..(Len(k) - 1) : SubSeq(k, 1, n) \in DOMAIN fs.files

MissingParent(fs, k) == Len(k) > 1 /\ Parent(k) \notin fs.dirs

HasChildren(fs, k) == \E c \in Nodes(fs) : Len(c) = Len(k) + 1 /\ Parent(c) = k

WithoutFile(fs, k) ==
    [fs EXCEPT !.files = [q \in DOMAIN fs.files \ {k} |-> fs.files[q]]]

WithFile(fs, k, bytes) ==
    [fs EXCEPT !.files = [q \in DOMAIN fs.files \cup {k} |->
                            IF q = k THEN bytes ELSE fs.files[q]]]

\* os.mkdir(k); the working directory (".") exists already.
os_mkdir(fs, k) ==
    IF k = <<>> THEN [err |-> "FileExistsError", fs |-> fs]
    ELSE IF FileAncestor(fs, k) THEN [err |-> "NotADirectoryError", fs |-> fs]
    ELSE IF MissingParent(fs, k) THEN [err |-> "FileNotFoundError", fs |-> fs]
    ELSE IF k \in Nodes(fs) THEN [err |-> "FileExistsError", fs |-> fs]
    ELSE [err |-> "no", fs |-> [fs EXCEPT !.dirs = @ \cup {k}]]

\* pathlib.Path(k).mkdir(parents, exist_ok=True): a missing parent is made
\* first when parents is set; any other OSError is swallowed when the path is
\* a directory after all, and raised otherwise.
RECURSIVE Path_mkdir(_, _, _)
Path_mkdir(fs, k, parents) ==
    LET r == os_mkdir(fs, k)
    IN  IF r.err = "no" THEN r
        ELSE IF r.err = "FileNotFoundError"
        THEN IF ~parents \/ k = <<>> THEN r
             ELSE LET up == Path_mkdir(fs, Parent(k), TRUE)
                  IN  IF up.err # "no" THEN up
                      ELSE Path_mkdir(up.fs, k, FALSE)
        ELSE IF k = <<>> \/ os_path_isdir(fs, k) THEN [err |-> "no", fs |-> fs]
        ELSE r

\* open(path, mode) for writing, then f.write(bytes): "w" truncates, "a"
\* keeps what the file holds; both create a missing file.
open_write(fs, k, bytes, mode) ==
    IF k = <<>> THEN [err |-> "FileNotFoundError", fs |-> fs]
    ELSE IF FileAncestor(fs, k) THEN [err |-> "NotADirectoryError", fs |-> fs]
    ELSE IF MissingParent(fs, k) THEN [err |-> "FileNotFoundError", fs |-> fs]
    ELSE IF k \in fs.dirs THEN [err |-> "IsADirectoryError", fs |-> fs]
    ELSE [err |-> "no",
          fs |-> WithFile(fs, k,
                    IF mode = "a" /\ k \in DOMAIN fs.files
                    THEN fs.files[k] \o bytes ELSE bytes)]

CR == "\\r"
LF == "\\n"

\* Text mode on writing: "\n" becomes os.linesep, "\r\n" where the host's
\* path module is ntpath.
RECURSIVE EncodeNewlines(_, _)
EncodeNewlines(px, text) ==
    IF text = <<>> THEN <<>>
    ELSE (IF text[1] = LF /\ ~px THEN <<CR, LF>> ELSE <<text[1]>>)
            \o EncodeNewlines(px, SubSeq(text, 2, Len(text)))

\* Text mode on reading (universal newlines): "\r\n" and a lone "\r" are
\* both read as "\n".
RECURSIVE DecodeNewlines(_)
DecodeNewlines(bytes) ==
    IF bytes = <<>> THEN <<>>
    ELSE IF bytes[1] = CR
    THEN IF Len(bytes) >= 2 /\ bytes[2] = LF
         THEN <<LF>> \o DecodeNewlines(SubSeq(bytes, 3, Len(bytes)))
         ELSE <<LF>> \o DecodeNewlines(SubSeq(bytes, 2, Len(bytes)))
    ELSE <<bytes[1]>> \o DecodeNewlines(SubSeq(bytes, 2, Len(bytes)))

\* os.path.split: head and tail around the last separator, the head without
\* its trailing separators.
RECURSIVE LastSep(_, _, _)
LastSep(px, path, i) ==
    IF i = 0 THEN 0
    ELSE IF IsSep(px, path[i]) THEN i ELSE LastSep(px, path, i - 1)

RECURSIVE StripSeps(_, _)
StripSeps(px, head) ==
    IF head # <<>> /\ IsSep(px, head[Len(head)])
    THEN StripSeps(px, SubSeq(head, 1, Len(head) - 1)) ELSE head

p_split(px, path) ==
    LET i == LastSep(px, path, Len(path))
        head == SubSeq(path, 1, i)
        stripped == StripSeps(px, head)
    IN  << IF stripped = <<>> THEN head ELSE stripped,
           SubSeq(path, i + 1, Len(path)) >>

\* ntpath.join(path, name) for a relative name: always a backslash, whatever
\* the host, unless path is empty or ends in a separator of ntpath's.
ntpath_join(path, name) ==
    IF path = <<>> THEN name
    ELSE IF path[Len(path)] \in {SLASH, BACKSLASH} THEN path \o name
    ELSE path \o <<BACKSLASH>> \o name

\* os.path.join(path, name) for a relative name: the host's separator.
os_path_join(px, path, name) ==
    IF path = <<>> THEN name
    ELSE IF IsSep(px, path[Len(path)]) THEN path \o name
    ELSE path \o <<IF px THEN SLASH ELSE BACKSLASH>> \o name

\* ntpath.basename: what follows the last "/" or "\".
ntpath_basename(path) == p_split(FALSE, path)[2]

(***************************************************************************)
(* filesystem.py: File and Directory.  A call gives back ret (what it      *)
(* returns: "True", "False", a str, a list, or "None"), raised ("no" or    *)
(* the exception that leaves the call) and the tree it leaves.             *)
(***************************************************************************)
Returns(ret, fs) == [ret |-> ret, raised |-> "no", fs |-> fs]

Raises(err, fs) == [ret |-> "None", raised |-> err, fs |-> fs]

Directory_ensure_NoParents(fs, px, path) ==
    LET k == Key(px, path)
    IN  IF os_path_exists(fs, k)
        THEN IF os_path_isdir(fs, k) THEN Returns("True", fs)
             ELSE Returns("False", fs)
        ELSE LET m == Path_mkdir(fs, k, FALSE)
             IN  Returns("True", m.fs)

Directory_ensure(fs, px, path) ==
    LET k == Key(px, path)
    IN  IF os_path_exists(fs, k)
        THEN IF os_path_isdir(fs, k) THEN Returns("True", fs)
             ELSE Returns("False", fs)
        ELSE LET m == Path_mkdir(fs, k, TRUE)
             IN  IF m.err = "no" THEN Returns("True", m.fs)
                 ELSE Raises(m.err, m.fs)

\* File.parent(): the path of the Directory it returns.
File_parent(px, path) == p_split(px, path)[1]

File_ensure(fs, px, path) == Directory_ensure(fs, px, File_parent(px, path))

File_write(fs, px, path, content, mode) ==
    LET w == open_write(fs, Key(px, path), EncodeNewlines(px, content), mode)
    IN  IF w.err = "no" THEN Returns("None", w.fs) ELSE Raises(w.err, w.fs)

File_append(fs, px, path, content) == File_write(fs, px, path, content, "a")

File_read(fs, px, path) ==
    LET k == Key(px, path)
    IN  IF k = <<>> THEN Raises("FileNotFoundError", fs)
        ELSE IF FileAncestor(fs, k) THEN Raises("NotADirectoryError", fs)
        ELSE IF k \in fs.dirs THEN Raises("IsADirectoryError", fs)  \* PermissionError under ntpath
        ELSE IF k \notin DOMAIN fs.files THEN Raises("FileNotFoundError", fs)
        ELSE Returns(DecodeNewlines(fs.files[k]), fs)

\* `permitted`: whether the OS lets the removal through; an unlink or rmdir
\* it refuses raises inside the try and is answered with False.
File_delete_Unguarded(fs, px, path, permitted) ==
    LET k == Key(px, path)
    IN  IF os_path_exists(fs, k) /\ permitted /\ ~HasChildren(fs, k)
        THEN Returns("True", [WithoutFile(fs, k) EXCEPT !.dirs = @ \ {k}])
        ELSE Returns(IF os_path_exists(fs, k) THEN "False" ELSE "True", fs)

File_delete(fs, px, path, permitted) ==
    LET k == Key(px, path)
    IN  IF os_path_exists(fs, k)
        THEN IF os_path_isfile(fs, k)
             THEN IF permitted THEN Returns("True", WithoutFile(fs, k))
                  ELSE Returns("False", fs)
             ELSE Returns("False", fs)
        ELSE Returns("True", fs)

Directory_delete(fs, px, path, permitted) ==
    LET k == Key(px, path)
    IN  IF os_path_exists(fs, k)
        THEN IF os_path_isdir(fs, k)
             THEN IF permitted /\ ~HasChildren(fs, k)
                  THEN Returns("True", [fs EXCEPT !.dirs = @ \ {k}])
                  ELSE Returns("False", fs)
             ELSE Returns("False", fs)
        ELSE Returns("True", fs)

\* Directory.createfi(name): ensure()'s answer is dropped, an exception of
\* ensure() or of write("") leaves createfi.
Directory_createfi(fs, px, path, name) ==
    LET fi == ntpath_join(path, name)
        e == File_ensure(fs, px, fi)
    IN  IF e.raised # "no" THEN e
        ELSE LET w == File_write(e.fs, px, fi, <<>>, "w")
             IN  IF w.raised = "no" THEN Returns(fi, w.fs) ELSE w

\* os.walk(top, topdown=False): the (root, dirs, files) triples, a
\* directory's after those of its subdirectories.  `order` lists the entry
\* names in the order scandir reports them; a top that cannot be scanned
\* gives no triple.
RECURSIVE os_walk(_, _, _, _)
os_walk(fs, px, top, order) ==
    LET k == Key(px, top)
        entries == SelectSeq(order, LAMBDA n : Append(k, n) \in Nodes(fs))
        dnames == SelectSeq(entries, LAMBDA n : Append(k, n) \in fs.dirs)
        fnames == SelectSeq(entries, LAMBDA n : Append(k, n) \in DOMAIN fs.files)
        Below[i \in 0..Len(dnames)] ==
            IF i = 0 THEN <<>>
            ELSE Below[i - 1]
                    \o os_walk(fs, px, os_path_join(px, top, dnames[i]), order)
    IN  IF ~os_path_isdir(fs, k) THEN <<>>
        ELSE Append(Below[Len(dnames)],
                    [root |-> top, dirs |-> dnames, files |-> fnames])

\* The sampled predicates a caller hands to walking().
When(fs, px, when, fipath) ==
    IF when = "exists" THEN os_path_isfile(fs, Key(px, fipath))
    ELSE IF when = "named_a" THEN ntpath_basename(fipath) = <<"a">>
    ELSE TRUE

\* The File paths walking() builds for one triple of os.walk.
JoinedFiles(px, triple) ==
    [i \in 1..Len(triple.files) |-> ntpath_join(triple.root, triple.files[i])]

\* Directory.walking(when): the paths of the File objects it yields, in order.
Directory_walking(fs, px, path, when, order) ==
    LET triples == os_walk(fs, px, path, order)
        Yielded[i \in 0..Len(triples)] ==
            IF i = 0 THEN <<>>
            ELSE Yielded[i - 1]
                    \o SelectSeq(JoinedFiles(px, triples[i]),
                                 LAMBDA f : When(fs, px, when, f))
    IN  Yielded[Len(triples)]

(***************************************************************************)
(* Calls of the filesystem API on sampled paths.  The tree starts empty    *)
(* and is bounded by a quota of nodes and of bytes.                        *)
(***************************************************************************)
Names == {"a", "b"}

\* The paths handed to the calls: a, b, a/a, a/b, a/a/a, a/a/b.
SamplePaths ==
    {JoinNames(ns, SLASH) :
        ns \in {<<"a">>, <<"b">>, <<"a", "a">>, <<"a", "b">>,
                <<"a", "a", "a">>, <<"a", "a", "b">>}}

\* The files whose contents are written and read: b and a/b.
IOPaths == {JoinNames(ns, SLASH) : ns \in {<<"b">>, <<"a", "b">>}}

SampleContents == {<<>>, <<"x">>, <<CR>>, <<LF>>}

FSNow == [dirs |-> dirs, files |-> files]

RECURSIVE SumBytes(_, _)
SumBytes(f, ks) ==
    IF ks = {} THEN 0
    ELSE LET k == CHOOSE q \in ks : TRUE
         IN  Len(f[k]) + SumBytes(f, ks \ {k})

WithinQuota(fs) ==
    /\ Cardinality(Nodes(fs)) <= MaxNodes
    /\ SumBytes(fs.files, DOMAIN fs.files) <= MaxDisk

InitFS ==
    /\ items = <<>>
    /\ res = [op |-> "init"]
    /\ posix \in BOOLEAN
    /\ dirs = {}
    /\ files = [p \in {} |-> <<>>]

\* The call named op on path with outcome r, started from the current tree.
Outcome(op, path, arg, r) ==
    /\ WithinQuota(r.fs)
    /\ dirs' = r.fs.dirs
    /\ files' = r.fs.files
    /\ res' = [op |-> op, path |-> path, arg |-> arg, ret |-> r.ret,
               raised |-> r.raised, pre |-> FSNow]
    /\ UNCHANGED <<items, posix>>

DirEnsureCall ==
    \E path \in SamplePaths :
        Outcome("Directory.ensure", path, "-", Directory_ensure(FSNow, posix, path))

FileEnsureCall ==
    \E path \in SamplePaths :
        Outcome("File.ensure", path, "-", File_ensure(FSNow, posix, path))

FileWriteCall(paths, contents) ==
    \E path \in paths, content \in contents :
        Outcome("File.write", path, content,
                File_write(FSNow, posix, path, content, "w"))

FileAppendCall ==
    \E path \in IOPaths, content \in SampleContents :
        Outcome("File.append", path, content,
                File_append(FSNow, posix, path, content))

FileReadCall ==
    \E path \in IOPaths \cup {<<"a">>} :
        Outcome("File.read", path, "-", File_read(FSNow, posix, path))

FileDeleteCall ==
    \E path \in SamplePaths, permitted \in BOOLEAN :
        Outcome("File.delete", path, permitted,
                File_delete(FSNow, posix, path, permitted))

DirDeleteCall ==
    \E path \in SamplePaths, permitted \in BOOLEAN :
        Outcome("Directory.delete", path, permitted,
                Directory_delete(FSNow, posix, path, permitted))

CreatefiCall ==
    \E path \in {<<"a">>, <<"b">>}, name \in Names :
        Outcome("Directory.createfi", path, <<name>>,
                Directory_createfi(FSNow, posix, path, <<name>>))

\* The names scandir may report, in each order it may report them.
Orders(S) ==
    {o \in [1..Cardinality(S) -> S] : \A i, j \in DOMAIN o : o[i] = o[j] => i = j}

EntryNames(fs) == {k[Len(k)] : k \in Nodes(fs)}

\* Two separate walks of the same directory with the same predicate; the OS
\* is free to list the entries in another order the second time.
WalkingCall ==
    \E path \in SamplePaths, when \in {"all", "named_a", "exists"},
       o1 \in Orders(EntryNames(FSNow)), o2 \in Orders(EntryNames(FSNow)) :
        /\ res' = [op |-> "Directory.walking", path |-> path, arg |-> when,
                   ret |-> Directory_walking(FSNow, posix, path, when, o1),
                   again |-> Directory_walking(FSNow, posix, path, when, o2),
                   raised |-> "no", pre |-> FSNow]
        /\ UNCHANGED <<items, fsvars>>

\* Building, probing and removing: ensure and delete.
NextFS ==
    \/ DirEnsureCall
    \/ FileEnsureCall
    \/ FileWriteCall(SamplePaths, {<<>>})
    \/ FileDeleteCall
    \/ DirDeleteCall

SpecFS == InitFS /\ [][NextFS]_vars

\* Building a tree and walking it.
NextWalk ==
    \/ DirEnsureCall
    \/ FileWriteCall(SamplePaths, {<<>>})
    \/ WalkingCall

SpecWalk == InitFS /\ [][NextWalk]_vars

\* Reading and writing file contents.
NextIO ==
    \/ DirEnsureCall
    \/ FileWriteCall(IOPaths, SampleContents)
    \/ FileAppendCall
    \/ FileReadCall
    \/ CreatefiCall

SpecIO == InitFS /\ [][NextIO]_vars

(***************************************************************************)
(* Properties of colortxt.                                                 *)
(***************************************************************************)
Reset == <<ESC, "[", "0", "m">>

\* The characters an attribute contributes to the escape sequence.
Present(attr) == IF attr = None THEN <<>> ELSE attr

\* A fragment's own render: a styled run in its escape/reset pair, a plain
\* string as it is.
Render(item) ==
    IF item.kind = "ColorStr"
    THEN <<ESC, "[">> \o Present(item.style) \o Present(item.fg)
            \o Present(item.bg) \o <<"m">> \o item.txt \o Reset
    ELSE item.txt

\* The renders of the fragments, concatenated in order, built from the right.
ConcatRenders(its) ==
    LET Rest[k \in 1..(Len(its) + 1)] ==
            IF k > Len(its) THEN <<>> ELSE Render(its[k]) \o Rest[k + 1]
    IN  Rest[1]

\* The unstyled texts of the fragments, concatenated in order.
ConcatTexts(its) ==
    LET Rest[k \in 1..(Len(its) + 1)] ==
            IF k > Len(its) THEN <<>> ELSE its[k].txt \o Rest[k + 1]
    IN  Rest[1]

SumTxtLen(its) ==
    LET Rest[k \in 1..(Len(its) + 1)] ==
            IF k > Len(its) THEN 0 ELSE Len(its[k].txt) + Rest[k + 1]
    IN  Rest[1]

\* C1: tint(T, fg, bg, style) is ESC[ + the codes of the attributes that are
\* present, in the order emphasis, foreground, background, + m + T + ESC[0m;
\* with no attribute set it is ESC[m + T + ESC[0m.
C1_TintFormat ==
    res.op = "tint" =>
        /\ res.out = <<ESC, "[">> \o Present(res.style) \o Present(res.fg)
                        \o Present(res.bg) \o <<"m">> \o res.text \o Reset
        /\ (res.style = None /\ res.fg = None /\ res.bg = None)
            => res.out = <<ESC, "[", "m">> \o res.text \o Reset

C1_Witness ==
    /\ res.op = "tint"
    /\ res.style = Style_Bold /\ res.fg = None /\ res.bg = BG_Blue
    /\ res.text = <<"B", "C">>
    /\ res.out = <<ESC, "[", "1", ";", "4", "4", "m", "B", "C", ESC, "[", "0", "m">>

\* C2 as claimed: concatenating a ColorStr with a ColorStr or a plain string,
\* in either operand order, gives a StrGroup holding both operands in order,
\* whose raw text is A+B and whose render is render(left)+render(right).
C2_ConcatEitherOrder ==
    res.op = "add" =>
        /\ res.raised = "no"
        /\ items = <<res.left, res.right>>
        /\ StrGroup_str(items) = res.left.txt \o res.right.txt
        /\ StrGroup_get(items) = Render(res.left) \o Render(res.right)

\* C2 as amended: with the ColorStr as the left operand the concatenation gives
\* a StrGroup holding both operands, unmerged and in order, raw text A+B and
\* render render(left)+render(right); a plain string on the left of a ColorStr
\* raises TypeError and builds no group.
C2_ConcatColorStrLeft ==
    res.op = "add" =>
        IF isColorStr(res.left)
        THEN /\ res.raised = "no"
             /\ items = <<res.left, res.right>>
             /\ StrGroup_str(items) = res.left.txt \o res.right.txt
             /\ StrGroup_get(items) = Render(res.left) \o Render(res.right)
        ELSE /\ res.raised = "TypeError"
             /\ items = res.pre

C2_Witness ==
    /\ res.op = "add"
    /\ isColorStr(res.left) /\ isColorStr(res.right)
    /\ res.left.fg # res.right.fg
    /\ res.left.txt # <<>> /\ res.right.txt # <<>>
    /\ res.raised = "no"
    /\ Len(items) = 2

\* C3: append, add_head and insert change the fragment list as the standard
\* sequence inserts do; get() is the in-order concatenation of each fragment's
\* own render and str() that of the fragments' unstyled texts.
C3_GroupStructure ==
    /\ res.op = "append" => items = res.pre \o <<res.x>>
    /\ res.op = "add_head" => items = <<res.x>> \o res.pre
    /\ res.op = "insert" =>
            LET n == Len(res.pre)
                \* where a sequence insert puts the fragment: at the index, a
                \* negative index counted from the end, clamped to the ends
                at == IF res.index > n THEN n
                      ELSE IF res.index >= 0 THEN res.index
                      ELSE IF res.index >= -n THEN n + res.index
                      ELSE 0
            IN  /\ Len(items) = n + 1
                /\ items[at + 1] = res.x
                /\ \A k \in 1..n : items[IF k <= at THEN k ELSE k + 1] = res.pre[k]
    /\ res.op = "get" => res.out = ConcatRenders(items)
    /\ res.op = "str" => res.out = ConcatTexts(items)

C3_Witness ==
    /\ res.op = "get"
    /\ Len(items) >= 3
    /\ isColorStr(items[1]) /\ ~isColorStr(items[2]) /\ isColorStr(items[3])
    /\ items[1] # items[3]
    /\ items[1].txt # <<>> /\ items[2].txt # <<>>

\* C4: len(group) is the sum of the unstyled text lengths of the fragments,
\* the length of str(group); escape codes are not counted, and a mutation
\* changes it by the unstyled length of the inserted fragment.
C4_GroupLength ==
    /\ StrGroup_len(items) = SumTxtLen(items)
    /\ StrGroup_len(items) = Len(StrGroup_str(items))
    /\ res.op = "len" => res.out = SumTxtLen(items)
    /\ res.op \in {"append", "add_head", "insert"} =>
            StrGroup_len(items) = StrGroup_len(res.pre) + Len(res.x.txt)

C4_Witness ==
    /\ res.op = "len"
    /\ \E k \in 1..Len(items) : isColorStr(items[k]) /\ items[k].txt # <<>>
    /\ \E k \in 1..Len(items) : ~isColorStr(items[k]) /\ items[k].txt # <<>>
    /\ res.out < Len(StrGroup_get(items))

\* C5: ColorStr(T,S) * n is a ColorStr of the same foreground, background and
\* emphasis whose text is empty for n = 0 and T repeated n times for n >= 1.
C5_MulKeepsStyle ==
    res.op = "mul" =>
        /\ res.out.kind = "ColorStr"
        /\ res.out.fg = res.c.fg
        /\ res.out.bg = res.c.bg
        /\ res.out.style = res.c.style
        /\ res.times = 0 => res.out.txt = <<>>
        /\ res.times >= 1 =>
            /\ Len(res.out.txt) = res.times * Len(res.c.txt)
            /\ \A k \in 1..Len(res.out.txt) :
                    res.out.txt[k] = res.c.txt[((k - 1) % Len(res.c.txt)) + 1]

C5_Witness ==
    /\ res.op = "mul"
    /\ res.times = 2
    /\ Len(res.c.txt) = 2
    /\ res.c.style # None
    /\ res.out.txt = res.c.txt \o res.c.txt

(***************************************************************************)
(* Properties of filesystem.py.                                            *)
(***************************************************************************)
\* C6: two Directory instances whose paths have the same absolute form compare
\* equal with ==.
C6_DirectoryEqByAbsPath ==
    (/\ res.op = "eq"
     /\ res.self.kind = "Directory"
     /\ res.other.kind = "Directory"
     /\ res.self.abs_path = res.other.abs_path)
        => res.out = TRUE

\* The key of the path the most recent call was made on.
ResKey == Key(posix, res.path)

\* k and every directory above it.
PathAndParents(k) == {SubSeq(k, 1, n) : n \in 1..Len(k)}

\* C7: File.delete() and Directory.delete() never raise.  They return true
\* when the path does not exist, or when the target of their own kind was
\* removed, and then the path no longer exists; they return false on a type
\* mismatch or a removal failure (a non-empty directory, a refusal of the
\* OS), and then the tree is unchanged.
C7_DeleteOutcome ==
    res.op \in {"File.delete", "Directory.delete"} =>
        LET k == ResKey
            existed == k \in Nodes(res.pre)
            own == IF res.op = "File.delete" THEN k \in DOMAIN res.pre.files
                   ELSE k \in res.pre.dirs
            removable == own /\ res.arg /\ ~HasChildren(res.pre, k)
        IN  /\ res.raised = "no"
            /\ res.ret \in {"True", "False"}
            /\ res.ret = "True" <=> (~existed \/ removable)
            /\ res.ret = "True" => k \notin Nodes(FSNow)
            /\ (res.ret = "True" /\ existed) =>
                    /\ Nodes(FSNow) = Nodes(res.pre) \ {k}
                    /\ \A f \in DOMAIN files : files[f] = res.pre.files[f]
                    /\ dirs \subseteq res.pre.dirs
            /\ (res.ret = "True" /\ ~existed) => FSNow = res.pre
            /\ res.ret = "False" => FSNow = res.pre

C7_Witness ==
    /\ res.op = "Directory.delete"
    /\ res.arg = TRUE
    /\ ResKey \in res.pre.dirs
    /\ HasChildren(res.pre, ResKey)
    /\ res.ret = "False"
    /\ FSNow = res.pre

EnsureOutcome(d) ==
    LET k == Key(posix, d)
    IN  /\ (k \notin Nodes(res.pre) /\ ~FileAncestor(res.pre, k)) =>
                /\ res.raised = "no" /\ res.ret = "True"
                /\ dirs = res.pre.dirs \cup PathAndParents(k)
                /\ files = res.pre.files
        /\ (k \notin Nodes(res.pre) /\ FileAncestor(res.pre, k)) =>
                /\ res.raised = "NotADirectoryError"
                /\ FSNow = res.pre
        /\ k \in res.pre.dirs =>
                res.raised = "no" /\ res.ret = "True" /\ FSNow = res.pre
        /\ k \in DOMAIN res.pre.files =>
                res.raised = "no" /\ res.ret = "False" /\ FSNow = res.pre
        /\ (res.ret = "True" /\ d # <<>>) => os_path_isdir(FSNow, k)
        /\ d = <<>> =>
                /\ res.ret = "True" /\ FSNow = res.pre
                /\ ~os_path_isdir(FSNow, k)

FilesUnder(fs, k) ==
    {f \in DOMAIN fs.files : Len(f) > Len(k) /\ SubSeq(f, 1, Len(k)) = k}

\* A sampled predicate, asked about the file with key f.
WhenOnFile(when, f) ==
    IF when = "named_a" THEN f[Len(f)] = <<"a">> ELSE TRUE

\* What C9 says of a walk that yielded the paths `yielded` and, on a second
\* call, `again`.
WalkIsExact(yielded, again) ==
    LET k == ResKey
        keys == [i \in 1..Len(yielded) |-> Key(posix, yielded[i])]
        expected == {f \in FilesUnder(FSNow, k) : WhenOnFile(res.arg, f)}
    IN  /\ {keys[i] : i \in 1..Len(keys)} = expected
        /\ Len(keys) = Cardinality(expected)
        /\ \A i \in 1..Len(keys) : keys[i] \notin dirs
        /\ \A i, j \in 1..Len(keys) :
                (/\ Len(Parent(keys[i])) > Len(Parent(keys[j]))
                 /\ SubSeq(Parent(keys[i]), 1, Len(Parent(keys[j]))) = Parent(keys[j]))
                    => i < j
        /\ {yielded[i] : i \in 1..Len(yielded)} = {again[i] : i \in 1..Len(again)}

\* C9: walking(predicate) over an unchanging tree yields exactly the files at
\* any depth under the directory for which the predicate is true, each once
\* and never a directory, the files of a subdirectory before the files
\* directly inside its parent, and two separate calls yield the same set.
C9_WalkingExact ==
    res.op = "Directory.walking" => WalkIsExact(res.ret, res.again)

\* Where the host's path module is ntpath, the backslash ntpath.join puts in
\* is a separator and the walk is as C9 says.
WalkingExactOnNtHost ==
    (res.op = "Directory.walking" /\ ~posix) => WalkIsExact(res.ret, res.again)

WalkingNtHostWitness ==
    /\ res.op = "Directory.walking" /\ ~posix /\ res.arg = "all"
    /\ Len(res.ret) >= 2
    /\ Len(Key(posix, res.ret[1])) = 3
    /\ Len(Key(posix, res.ret[2])) = 2

HasCR(text) == \E i \in 1..Len(text) : text[i] = CR

\* What read() returns for the file with key k, "" if it is not there.
ReadBack(fs, k) == IF k \in DOMAIN fs.files THEN DecodeNewlines(fs.files[k]) ELSE <<>>

\* The file with key k holds a text without carriage returns, as the host
\* writes it (or is not there).
HoldsPlainText(fs, k) ==
    k \in DOMAIN fs.files =>
        /\ ~HasCR(ReadBack(fs, k))
        /\ fs.files[k] = EncodeNewlines(posix, ReadBack(fs, k))

\* C10: write always overwrites: on a file whose parent directory exists,
\* read() after write(c) returns c, and after append(c) what it returned
\* before followed by c; createfi on an existing file leaves it empty.
\* Stated for texts without a carriage return, which read() hands back as a
\* line feed on every host.
C10_WriteOverwrites ==
    /\ (/\ res.op \in {"File.write", "File.append"}
        /\ ~HasCR(res.arg)
        /\ HoldsPlainText(res.pre, ResKey)
        /\ ~MissingParent(res.pre, ResKey) /\ ~FileAncestor(res.pre, ResKey)
        /\ ResKey \notin res.pre.dirs) =>
            /\ res.raised = "no"
            /\ File_read(FSNow, posix, res.path).ret =
                    IF res.op = "File.write" THEN res.arg
                    ELSE ReadBack(res.pre, ResKey) \o res.arg
    /\ res.op = "Directory.createfi" =>
        LET target == ResKey \o <<res.arg>>
        IN  target \in DOMAIN res.pre.files =>
                /\ res.raised = "no"
                /\ target \in DOMAIN files
                /\ files[target] = <<>>

\* write(c) then read() gives c, for every content, carriage returns too.
WriteReadsBackVerbatim ==
    (res.op = "File.write" /\ res.raised = "no") =>
        File_read(FSNow, posix, res.path).ret = res.arg

\* Where the host's path module is ntpath, C10 holds for the contents above.
WriteOverwritesOnNtHost == ~posix => C10_WriteOverwrites

\* write(c) then read() gives c with its line ends normalised.
WriteReadsBackNormalised ==
    (res.op = "File.write" /\ res.raised = "no") =>
        File_read(FSNow, posix, res.path).ret = DecodeNewlines(res.arg)

====
